---- MODULE Spec2Model ----
(***************************************************************************)
(* The two model-router scripts of the repository:                         *)
(*   src/ApplicationCode/python/multi_ollama_api.py  (GET /health,         *)
(*       GET /models, POST /ask)            -- server "app"                *)
(*   src/python/multi_ollama_api.py         (GET /models,                  *)
(*       POST /ollama/chat)                 -- server "legacy"             *)
(* A handler invocation is a record h (its locals, the upstream calls it   *)
(* has made, its response).  Every request is run twice in lockstep, as    *)
(* `run` and as `twin`: same body except the token, same backend answers.  *)
(***************************************************************************)
EXTENDS Integers, Sequences, FiniteSets, TLC

VARIABLES
    AVAILABLE_MODELS,        \* app: dict key -> real Ollama model name
    OLLAMA_SERVICES,         \* app: dict key -> service URL
    LEGACY_AVAILABLE_MODELS, \* legacy: list of keys
    MODEL_ENDPOINTS,         \* legacy: dict key -> service URL
    run,                     \* the handler invocation in progress
    twin                     \* the same request with another token

registry == <<AVAILABLE_MODELS, OLLAMA_SERVICES, LEGACY_AVAILABLE_MODELS, MODEL_ENDPOINTS>>
vars == <<AVAILABLE_MODELS, OLLAMA_SERVICES, LEGACY_AVAILABLE_MODELS, MODEL_ENDPOINTS, run, twin>>

---------------------------------------------------------------------------
(* Bounds *)

\* longest text a backend generates, in symbols
MaxLen == 3
\* longest streamed reply, in lines
MaxLines == 3

---------------------------------------------------------------------------
(* Python / JSON values.  A string is a sequence of symbols: single        *)
(* characters (" ", "a", "b") or one atomic word (a model name, a token).  *)

None == [t |-> "null"]
Absent == [t |-> "absent"]
JStr(s) == [t |-> "str", v |-> s]
JNum(k) == [t |-> "num", n |-> k]
JList == [t |-> "list"]
JObj(fields) == [t |-> "obj", f |-> fields]

\* dict.get(k, default); raises AttributeError when d is no dict (callers test d.t first)
Get(d, k, default) == IF k \in DOMAIN d.f THEN d.f[k] ELSE default

\* Python truthiness (`if not x`)
Truthy(x) ==
    CASE x.t = "null" -> FALSE
      [] x.t = "str"  -> x.v # <<>>
      [] x.t = "num"  -> x.n # 0
      [] OTHER        -> TRUE

\* str(x) inside an f-string, as a sequence of symbols
PyStr(x) ==
    CASE x.t = "null" -> <<"None">>
      [] x.t = "str"  -> x.v
      [] x.t = "num"  -> <<"<number>">>
      [] OTHER        -> <<"<repr>">>

\* str.strip(): whitespace removed at both ends
RECURSIVE lstrip(_)
lstrip(s) == IF s # <<>> /\ Head(s) = " " THEN lstrip(Tail(s)) ELSE s
RECURSIVE rstrip(_)
rstrip(s) == IF s # <<>> /\ s[Len(s)] = " " THEN rstrip(SubSeq(s, 1, Len(s) - 1)) ELSE s
strip(s) == rstrip(lstrip(s))

(* An insertion-ordered dict with string keys: a sequence of <<key, value>>. *)
Keys(d) == [i \in 1..Len(d) |-> d[i][1]]
HasKey(d, k) == \E i \in 1..Len(d) : d[i][1] = k
Lookup(d, k) == d[CHOOSE i \in 1..Len(d) : d[i][1] = k][2]
\* `x in d` / `x in lst` for a JSON value x: only a string can equal a key
InKeys(x, ks) == x.t = "str" /\ Len(x.v) = 1 /\ \E i \in 1..Len(ks) : ks[i] = x.v[1]

---------------------------------------------------------------------------
(* Configuration (the values without environment overrides) *)

OLLAMA_BASE_URL == "http://localhost:11434"

AVAILABLE_MODELS_boot ==
    << <<"smollm2", "smollm2:135m-instruct-q8_0">>, <<"tinyllama", "tinyllama:latest">> >>

OLLAMA_SERVICES_boot ==
    << <<"smollm2", "http://ollama-smollm2:11434">>, <<"tinyllama", "http://ollama-tinyllama:11434">> >>

LEGACY_AVAILABLE_MODELS_boot == <<"tinyllama", "smollm2">>

MODEL_ENDPOINTS_boot ==
    << <<"tinyllama", "http://ollama-tinyllama.aiops.svc.cluster.local:11434">>,
       <<"smollm2", "http://ollama-smollm2.aiops.svc.cluster.local:11434">> >>

get_ollama_url_fallback(model_key) == OLLAMA_BASE_URL

get_ollama_url(model_key) ==
    IF HasKey(OLLAMA_SERVICES, model_key) THEN Lookup(OLLAMA_SERVICES, model_key)
    ELSE OLLAMA_BASE_URL

\* jwt.decode succeeds only on a token signed with SECRET_KEY
validate_token(token) == token = JStr(<<"jwt-signed">>)

---------------------------------------------------------------------------
(* Requests *)

Tokens == {Absent, JStr(<<"jwt-forged">>), JStr(<<"jwt-signed">>)}
Prompts == {Absent, None, JStr(<<>>), JStr(<<"a">>), JStr(<<" ">>), JNum(5)}
Messages == {Absent, JList}
Models == {Absent, None, JStr(<<"smollm2">>), JStr(<<"tinyllama">>), JStr(<<"gpt4">>), JList}

Opt(k, x) == IF x = Absent THEN <<>> ELSE (k :> x)

Body(prompt, messages, model, token) ==
    JObj(Opt("prompt", prompt) @@ Opt("messages", messages) @@ Opt("model", model)
         @@ Opt("token", token))

\* request bodies as request.get_json() returns them: a dict, None, or a list;
\* Absent is the request without a JSON body (get_json returns None or raises)
Bodies ==
    {None, JList, Absent} \cup
    {Body(p, ms, m, tk) : p \in Prompts, ms \in Messages, m \in Models, tk \in Tokens}

ChatRoutes == {<<"app", "POST /ask">>, <<"legacy", "POST /ollama/chat">>}
ModelsRoutes == {<<"app", "GET /models">>, <<"legacy", "GET /models">>}
HealthRoute == <<"app", "GET /health">>

Requests ==
    {[route |-> r, data |-> None] : r \in ModelsRoutes \cup {HealthRoute}} \cup
    {[route |-> r, data |-> d] : r \in ChatRoutes, d \in Bodies}

\* another token than tk
OtherToken(tk) ==
    CASE tk = Absent -> JStr(<<"jwt-forged">>)
      [] tk = JStr(<<"jwt-forged">>) -> JStr(<<"jwt-signed">>)
      [] OTHER -> Absent

TokenOf(data) == IF data.t = "obj" THEN Get(data, "token", Absent) ELSE Absent

\* the same body with another token
WithToken(data, tk) ==
    IF data.t # "obj" THEN data
    ELSE JObj([k \in (DOMAIN data.f) \ {"token"} |-> data.f[k]] @@ Opt("token", tk))

---------------------------------------------------------------------------
(* A handler invocation *)

NoResponse == [status |-> 0, body |-> [none |-> TRUE]]

NewHandler(route, data) ==
    [ route |-> route, data |-> data, pc |-> "recv",
      prompt |-> None, model_key |-> "", ollama_model |-> "", ollama_url |-> "",
      calls |-> <<>>,            \* upstream calls made so far, with the backend's answer
      lines |-> <<>>,            \* legacy: the lines iter_lines() has still to yield
      final_message |-> <<>>,    \* legacy: the text assembled so far
      services_status |-> <<>>,  \* health: the entries built so far
      jwt_decodes |-> 0,         \* invocations of validate_token
      rsp |-> NoResponse ]

Idle == [NewHandler(<<"-", "-">>, None) EXCEPT !.pc = "idle"]

\* return jsonify(body), status
Respond(h, status, body) == [h EXCEPT !.pc = "done", !.rsp = [status |-> status, body |-> body]]

\* an exception leaves the handler: no response of its own
Fault(h) == [h EXCEPT !.pc = "fault"]

\* requests.get / requests.post: the call made and what the backend answered
Call(h, method, url, path, payload, result) ==
    [h EXCEPT !.calls = Append(@, [method |-> method, url |-> url, path |-> path,
                                   payload |-> payload, result |-> result])]

---------------------------------------------------------------------------
(* What a backend can answer *)

\* GET /api/tags as check_ollama_connection sees it: a status, or an exception
ProbeAnswers == {[t |-> "200"], [t |-> "503"], [t |-> "ConnectionError"], [t |-> "Timeout"]}

\* GET /api/tags as get_available_ollama_models sees it
TagsAnswers ==
    { [t |-> "200", models |-> <<>>], [t |-> "200", models |-> <<"tinyllama:latest">>],
      [t |-> "503"], [t |-> "ConnectionError"],
      [t |-> "200-malformed"] }   \* a 200 whose JSON is no {"models": [{"name": ..}]}

Texts == UNION {[1..n -> {" ", "a"}] : n \in 0..MaxLen}

\* POST /api/generate with "stream": False
GenAnswers ==
    { [t |-> "Timeout"], [t |-> "ConnectionError"], [t |-> "HTTPError"] } \cup
    \* a 200 whose body is no JSON: response.json() raises requests' JSONDecodeError
    \* (a RequestException) or, with an older requests, a plain ValueError
    { [t |-> "200-not-json", raises |-> e] : e \in {"RequestException", "ValueError"} } \cup
    { [t |-> "200", json |-> j] :
        j \in {JList, JObj(<<>>), JObj("response" :> None), JObj("response" :> JNum(5))}
              \cup {JObj("response" :> JStr(x)) : x \in Texts} }

GenerateShape(x) == JObj("response" :> x)
ChatShape(x) == JObj("message" :> JObj("content" :> x))

\* one line of a streamed reply, as iter_lines() yields it
Lines ==
    { [t |-> "empty"], [t |-> "garbage"] } \cup
    { [t |-> "json", j |-> j] :
        j \in { JNum(5), JObj("message" :> None),
                GenerateShape(JStr(<<"a">>)), GenerateShape(JStr(<<"b">>)),
                GenerateShape(JNum(5)),
                ChatShape(JStr(<<"a">>)), ChatShape(JStr(<<"b">>)) } }

Streams == UNION {[1..n -> Lines] : n \in 0..MaxLines}

\* POST /api/generate or /api/chat with stream=True
StreamAnswers ==
    { [t |-> "Timeout"], [t |-> "ConnectionError"], [t |-> "HTTPError"] } \cup
    { [t |-> "200", stream |-> s] : s \in Streams }

---------------------------------------------------------------------------
(* src/ApplicationCode/python/multi_ollama_api.py *)

check_ollama_connection_any(answer) == TRUE

\* True iff the GET returned 200; a RequestException gives False
check_ollama_connection(answer) == answer.t = "200"

\* the names the backend lists; [] on a non-200 or a RequestException
get_available_ollama_models(answer) == IF answer.t = "200" THEN answer.models ELSE <<>>

list_models_partial(h) ==
    Respond(h, 200, [models |-> Tail(Keys(AVAILABLE_MODELS)), model_mapping |-> AVAILABLE_MODELS])

list_models(h) ==
    Respond(h, 200, [models |-> Keys(AVAILABLE_MODELS), model_mapping |-> AVAILABLE_MODELS])

\* one iteration of the loop over OLLAMA_SERVICES.items()
health_check_service(h, probe, tags) ==
    LET item == OLLAMA_SERVICES[Len(h.services_status) + 1]
        model_key == item[1]
        ollama_url == item[2]
        h1 == Call(h, "GET", ollama_url, "/api/tags", None, probe)
        is_connected == check_ollama_connection(probe)
        h2 == IF is_connected THEN Call(h1, "GET", ollama_url, "/api/tags", None, tags) ELSE h1
        available_models == IF is_connected THEN get_available_ollama_models(tags) ELSE <<>>
    IN  IF is_connected /\ tags.t = "200-malformed"
        THEN Fault(h2)   \* AttributeError / KeyError: only RequestException is caught
        ELSE [h2 EXCEPT !.services_status =
                 Append(@, <<model_key, [url |-> ollama_url, connected |-> is_connected,
                                         models |-> available_models]>>)]

health_check_respond_all(h) ==
    LET overall_healthy == \A i \in 1..Len(h.services_status) : h.services_status[i][2].connected
    IN  Respond(h, 200, [status |-> IF overall_healthy THEN "healthy" ELSE "degraded",
                         services |-> h.services_status,
                         configured_models |-> Keys(AVAILABLE_MODELS)])

health_check_respond(h) ==
    LET overall_healthy == \E i \in 1..Len(h.services_status) : h.services_status[i][2].connected
    IN  Respond(h, 200, [status |-> IF overall_healthy THEN "healthy" ELSE "degraded",
                         services |-> h.services_status,
                         configured_models |-> Keys(AVAILABLE_MODELS)])

\* "Validate inputs" and the resolution of the model, for a dict body
chat_with_model_inputs(h) ==
    LET prompt == Get(h.data, "prompt", None)
        model_key == Get(h.data, "model", JStr(<<"smollm2">>))
    IN  IF Truthy(prompt) /\ prompt.t = "num" THEN Fault(h)   \* len(prompt): TypeError
        ELSE IF ~Truthy(prompt) THEN Respond(h, 400, [error |-> <<"Missing prompt">>])
        ELSE IF model_key.t = "list" THEN Fault(h)   \* `in` on a dict: TypeError, unhashable
        ELSE IF ~InKeys(model_key, Keys(AVAILABLE_MODELS))
        THEN Respond(h, 400, [error |-> <<"Model '">> \o PyStr(model_key) \o <<"' not available">>,
                              available_models |-> Keys(AVAILABLE_MODELS)])
        ELSE [h EXCEPT !.pc = "probe", !.prompt = prompt, !.model_key = model_key.v[1],
                       !.ollama_model = Lookup(AVAILABLE_MODELS, model_key.v[1]),
                       !.ollama_url = get_ollama_url(model_key.v[1])]

chat_with_model_validate_auth(h) ==
    IF h.data.t # "obj" THEN Fault(h)
    ELSE LET token == Get(h.data, "token", None)
             h1 == [h EXCEPT !.jwt_decodes = @ + 1]
         IN  IF ~validate_token(token) THEN Respond(h1, 401, [error |-> <<"Invalid token">>])
             ELSE chat_with_model_inputs(h1)

\* chat_with_model up to the connection check: parse, extract, validate, resolve
chat_with_model_validate(h) ==
    IF h.data.t # "obj" THEN Fault(h)   \* data.get: AttributeError, outside the try
    ELSE LET token == Get(h.data, "token", None)   \* read, never used
         IN  chat_with_model_inputs(h)

\* the connection check for the selected service
chat_with_model_probe(h, answer) ==
    LET h1 == Call(h, "GET", h.ollama_url, "/api/tags", None, answer)
    IN  IF ~check_ollama_connection(answer)
        THEN Respond(h1, 503, [error |-> <<"Ollama service for '", h.model_key, "' is not available">>,
                               ollama_url |-> h.ollama_url])
        ELSE [h1 EXCEPT !.pc = "generate"]

InternalError(h) == Respond(h, 500, [error |-> <<"Internal server error">>])

CommunicationError(h, e) ==
    Respond(h, 500, [error |-> <<"Failed to communicate with Ollama: ", e>>,
                     ollama_url |-> h.ollama_url])

Success(h, generated_text) ==
    Respond(h, 200, [response |-> generated_text, model |-> h.model_key,
                     ollama_model |-> h.ollama_model, processing_time |-> "elapsed"])

chat_with_model_result_untrimmed(h, result) ==
    IF result.t # "obj" THEN InternalError(h)
    ELSE LET text == Get(result, "response", JStr(<<>>))
         IN  IF text.t # "str" THEN InternalError(h)
             ELSE IF text.v = <<>>
                  THEN Respond(h, 500, [error |-> <<"Empty response from model">>])
                  ELSE Success(h, text.v)

chat_with_model_result_unchecked(h, result) ==
    IF result.t # "obj" THEN InternalError(h)
    ELSE LET text == Get(result, "response", JStr(<<>>))
         IN  IF text.t # "str" THEN InternalError(h) ELSE Success(h, strip(text.v))

\* result = response.json() ... return jsonify({...}), inside the try
chat_with_model_result(h, result) ==
    IF result.t # "obj" THEN InternalError(h)        \* result.get: AttributeError
    ELSE LET text == Get(result, "response", JStr(<<>>))
         IN  IF text.t # "str" THEN InternalError(h)  \* .strip: AttributeError
             ELSE LET generated_text == strip(text.v)
                  IN  IF generated_text = <<>>
                      THEN Respond(h, 500, [error |-> <<"Empty response from model">>])
                      ELSE Success(h, generated_text)

\* the try block: the generation call, the reply, the except clauses
chat_with_model_generate(h, answer) ==
    LET payload == [model |-> h.ollama_model, prompt |-> h.prompt, stream |-> FALSE]
        h1 == Call(h, "POST", h.ollama_url, "/api/generate", payload, answer)
    IN  CASE answer.t = "Timeout" ->
               Respond(h1, 504, [error |-> <<"Request timeout - model took too long to respond">>])
          [] answer.t \in {"ConnectionError", "HTTPError"} -> CommunicationError(h1, answer.t)
          [] answer.t = "200-not-json" ->
               IF answer.raises = "RequestException" THEN CommunicationError(h1, "JSONDecodeError")
               ELSE InternalError(h1)
          [] answer.t = "200" -> chat_with_model_result(h1, answer.json)

---------------------------------------------------------------------------
(* src/python/multi_ollama_api.py *)

legacy_list_models(h) == Respond(h, 200, [models |-> LEGACY_AVAILABLE_MODELS])

\* chat_with_model up to the try block: parse, validate, pick the endpoint
legacy_chat_with_model_validate(h) ==
    IF h.data.t # "obj" THEN Fault(h)   \* data.get: AttributeError
    ELSE
    LET token == Get(h.data, "token", None)
        model == Get(h.data, "model", None)
        prompt == Get(h.data, "prompt", None)
    IN  IF ~InKeys(model, LEGACY_AVAILABLE_MODELS)
        THEN Respond(h, 400, [error |-> <<"Model '">> \o PyStr(model) \o <<"' not available">>])
        ELSE IF ~Truthy(prompt) THEN Respond(h, 400, [error |-> <<"Missing prompt">>])
        ELSE [h EXCEPT !.pc = "post", !.prompt = prompt, !.model_key = model.v[1],
                       !.ollama_url = Lookup(MODEL_ENDPOINTS, model.v[1])]

\* str(e) of the RequestException caught by the outer except
legacy_upstream_error(h, e) == Respond(h, 500, [error |-> <<e>>])

\* requests.post(..., stream=True) and raise_for_status()
legacy_chat_with_model_post(h, answer) ==
    LET path == IF h.model_key = "smollm2" THEN "/api/generate" ELSE "/api/chat"
        payload == IF h.model_key = "smollm2" THEN [prompt |-> h.prompt]
                   ELSE [model |-> h.model_key,
                         messages |-> <<[role |-> "user", content |-> h.prompt]>>]
        h1 == Call(h, "POST", h.ollama_url, path, payload, answer)
    IN  IF answer.t # "200" THEN legacy_upstream_error(h1, answer.t)
        ELSE [h1 EXCEPT !.pc = "lines", !.lines = answer.stream, !.final_message = <<>>]

legacy_chat_with_model_line_abort(h) ==
    LET line == Head(h.lines)
    IN  IF line.t = "json" /\ line.j.t = "obj" /\ "response" \in DOMAIN line.j.f
           /\ line.j.f["response"].t = "str"
        THEN [h EXCEPT !.lines = Tail(@), !.final_message = @ \o line.j.f["response"].v]
        ELSE [h EXCEPT !.lines = <<>>]

\* one iteration of `for line in response.iter_lines()`
legacy_chat_with_model_line(h) ==
    LET line == Head(h.lines)
        skip == [h EXCEPT !.lines = Tail(@)]
        add(msg) == IF msg.t # "str" THEN skip      \* str += non-str: TypeError, caught
                    ELSE [skip EXCEPT !.final_message = @ \o msg.v]
    IN  IF line.t = "empty" THEN skip                \* `if line:` is false
        ELSE IF line.t = "garbage" THEN skip         \* decode / json.loads raise, caught
        ELSE LET parsed == line.j
             IN  IF parsed.t # "obj" THEN skip       \* parsed.get: AttributeError, caught
                 ELSE IF h.model_key = "smollm2"
                 THEN add(Get(parsed, "response", JStr(<<>>)))
                 ELSE LET message == Get(parsed, "message", JObj(<<>>))
                      IN  IF message.t # "obj" THEN skip   \* .get: AttributeError, caught
                          ELSE add(Get(message, "content", JStr(<<>>)))

\* iter_lines() raises (the connection broke mid-stream): a RequestException
legacy_chat_with_model_broken(h) ==
    legacy_upstream_error(
        [h EXCEPT !.calls[Len(h.calls)].result = [t |-> "ChunkedEncodingError"]],
        "ChunkedEncodingError")

\* the loop is over: return jsonify({"response": final_message})
legacy_chat_with_model_finish(h) == Respond(h, 200, [response |-> h.final_message])

---------------------------------------------------------------------------
(* The state machine *)

Init ==
    /\ AVAILABLE_MODELS = AVAILABLE_MODELS_boot
    /\ OLLAMA_SERVICES = OLLAMA_SERVICES_boot
    /\ LEGACY_AVAILABLE_MODELS = LEGACY_AVAILABLE_MODELS_boot
    /\ MODEL_ENDPOINTS = MODEL_ENDPOINTS_boot
    /\ run = Idle
    /\ twin = Idle

At(h, route, pc) == h.route = route /\ h.pc = pc

\* a client sends a request (and, as the twin, the same request with another token)
Request ==
    /\ run.pc = "idle"
    /\ \E rq \in Requests :
          /\ run' = NewHandler(rq.route, rq.data)
          /\ twin' = NewHandler(rq.route, WithToken(rq.data, OtherToken(TokenOf(rq.data))))
    /\ UNCHANGED registry

\* the response (or the fault) has left the server: the request's state is discarded
Discard ==
    /\ run.pc \in {"done", "fault"}
    /\ run' = Idle
    /\ twin' = Idle
    /\ UNCHANGED registry

ListModels ==
    /\ At(run, <<"app", "GET /models">>, "recv")
    /\ run' = list_models(run)
    /\ twin' = IF twin.pc = "recv" THEN list_models(twin) ELSE twin
    /\ UNCHANGED registry

LegacyListModels ==
    /\ At(run, <<"legacy", "GET /models">>, "recv")
    /\ run' = legacy_list_models(run)
    /\ twin' = IF twin.pc = "recv" THEN legacy_list_models(twin) ELSE twin
    /\ UNCHANGED registry

HealthService ==
    /\ At(run, HealthRoute, "recv")
    /\ Len(run.services_status) < Len(OLLAMA_SERVICES)
    /\ \E probe \in ProbeAnswers, tags \in TagsAnswers :
          /\ run' = health_check_service(run, probe, tags)
          /\ twin' = IF twin.pc = "recv" THEN health_check_service(twin, probe, tags) ELSE twin
    /\ UNCHANGED registry

HealthRespond ==
    /\ At(run, HealthRoute, "recv")
    /\ Len(run.services_status) = Len(OLLAMA_SERVICES)
    /\ run' = health_check_respond(run)
    /\ twin' = IF twin.pc = "recv" THEN health_check_respond(twin) ELSE twin
    /\ UNCHANGED registry

AskValidate ==
    /\ At(run, <<"app", "POST /ask">>, "recv")
    /\ run' = chat_with_model_validate(run)
    /\ twin' = IF twin.pc = "recv" THEN chat_with_model_validate(twin) ELSE twin
    /\ UNCHANGED registry

AskProbe ==
    /\ At(run, <<"app", "POST /ask">>, "probe")
    /\ \E answer \in ProbeAnswers :
          /\ run' = chat_with_model_probe(run, answer)
          /\ twin' = IF twin.pc = "probe" THEN chat_with_model_probe(twin, answer) ELSE twin
    /\ UNCHANGED registry

AskGenerate ==
    /\ At(run, <<"app", "POST /ask">>, "generate")
    /\ \E answer \in GenAnswers :
          /\ run' = chat_with_model_generate(run, answer)
          /\ twin' = IF twin.pc = "generate" THEN chat_with_model_generate(twin, answer) ELSE twin
    /\ UNCHANGED registry

LegacyValidate ==
    /\ At(run, <<"legacy", "POST /ollama/chat">>, "recv")
    /\ run' = legacy_chat_with_model_validate(run)
    /\ twin' = IF twin.pc = "recv" THEN legacy_chat_with_model_validate(twin) ELSE twin
    /\ UNCHANGED registry

LegacyPost ==
    /\ At(run, <<"legacy", "POST /ollama/chat">>, "post")
    /\ \E answer \in StreamAnswers :
          /\ run' = legacy_chat_with_model_post(run, answer)
          /\ twin' = IF twin.pc = "post" THEN legacy_chat_with_model_post(twin, answer) ELSE twin
    /\ UNCHANGED registry

LegacyLine ==
    /\ At(run, <<"legacy", "POST /ollama/chat">>, "lines")
    /\ run.lines # <<>>
    /\ run' = legacy_chat_with_model_line(run)
    /\ twin' = IF twin.pc = "lines" /\ twin.lines # <<>>
               THEN legacy_chat_with_model_line(twin) ELSE twin
    /\ UNCHANGED registry

LegacyBroken ==
    /\ At(run, <<"legacy", "POST /ollama/chat">>, "lines")
    /\ run' = legacy_chat_with_model_broken(run)
    /\ twin' = IF twin.pc = "lines" THEN legacy_chat_with_model_broken(twin) ELSE twin
    /\ UNCHANGED registry

LegacyFinish ==
    /\ At(run, <<"legacy", "POST /ollama/chat">>, "lines")
    /\ run.lines = <<>>
    /\ run' = legacy_chat_with_model_finish(run)
    /\ twin' = IF twin.pc = "lines" /\ twin.lines = <<>>
               THEN legacy_chat_with_model_finish(twin) ELSE twin
    /\ UNCHANGED registry

Next ==
    \/ Request
    \/ Discard
    \/ ListModels
    \/ LegacyListModels
    \/ HealthService
    \/ HealthRespond
    \/ AskValidate
    \/ AskProbe
    \/ AskGenerate
    \/ LegacyValidate
    \/ LegacyPost
    \/ LegacyLine
    \/ LegacyBroken
    \/ LegacyFinish

Spec == Init /\ [][Next]_vars

---------------------------------------------------------------------------
(* Vocabulary of the properties *)

AskRoute == <<"app", "POST /ask">>
LegacyChatRoute == <<"legacy", "POST /ollama/chat">>

Finished(h) == h.pc \in {"done", "fault"}
ObjBody(h) == h.data.t = "obj"
HasField(h, k) == k \in DOMAIN h.data.f
Blank(s) == \A k \in 1..Len(s) : s[k] = " "

MissingPrompt == <<"Missing prompt">>
ModelNotAvailable(m) == <<"Model '">> \o PyStr(m) \o <<"' not available">>
ConfiguredKeys == {"smollm2", "tinyllama"}
Range(q) == {q[i] : i \in 1..Len(q)}

\* the logical key a POST /ask request selects: its model field, smollm2 when it has none
AskKey(h) == IF HasField(h, "model") THEN h.data.f["model"] ELSE JStr(<<"smollm2">>)

UpstreamFailures == {"Timeout", "ConnectionError", "HTTPError", "ChunkedEncodingError"}

---------------------------------------------------------------------------
(* C1: a chat/generate request (POST /ask or /ollama/chat) whose JSON      *)
(* object has neither `prompt` nor `messages` is answered 400 "Missing     *)
(* prompt", whatever its model, and no upstream call has been made.        *)
C1_MissingInputFirst ==
    (run.route \in ChatRoutes /\ Finished(run) /\ ObjBody(run)
        /\ ~HasField(run, "prompt") /\ ~HasField(run, "messages"))
    => /\ run.pc = "done"
       /\ run.rsp.status = 400
       /\ run.rsp.body.error = MissingPrompt
       /\ run.calls = <<>>

---------------------------------------------------------------------------
---------------------------------------------------------------------------
(* C3: when the reachability probe of a POST /ask request fails (non-200,  *)
(* transport error, timeout) the response is 503, carries the attempted    *)
(* backend URL, and the generation call is never sent.                     *)
ProbeFailed(h) == h.route = AskRoute /\ h.calls # <<>> /\ h.calls[1].result.t # "200"

C3_BackendUnavailable ==
    ProbeFailed(run)
    => /\ run.pc = "done"
       /\ run.rsp.status = 503
       /\ run.rsp.body.ollama_url = run.calls[1].url
       /\ run.calls[1].url = Lookup(OLLAMA_SERVICES_boot, AskKey(run).v[1])
       /\ \A i \in 1..Len(run.calls) : run.calls[i].method # "POST"

C3_Witness ==
    /\ ProbeFailed(run) /\ run.calls[1].result.t = "Timeout"
    /\ run.rsp.status = 503
    /\ run.rsp.body.ollama_url = "http://ollama-tinyllama:11434"

---------------------------------------------------------------------------
(* C4: the response to a streamed reply is the concatenation, in arrival   *)
(* order, of the text of its valid fragment lines; malformed lines add     *)
(* nothing and do not end the loop; the request succeeds with 200.         *)

\* the text of a valid fragment line for the model's wire shape, else nothing
FragmentText(line, key) ==
    IF line.t # "json" \/ line.j.t # "obj" THEN <<>>
    ELSE IF key = "smollm2"
    THEN IF "response" \in DOMAIN line.j.f /\ line.j.f["response"].t = "str"
         THEN line.j.f["response"].v ELSE <<>>
    ELSE IF "message" \in DOMAIN line.j.f /\ line.j.f["message"].t = "obj"
            /\ "content" \in DOMAIN line.j.f["message"].f
            /\ line.j.f["message"].f["content"].t = "str"
         THEN line.j.f["message"].f["content"].v ELSE <<>>

RECURSIVE ConcatFragments(_, _)
ConcatFragments(stream, key) ==
    IF stream = <<>> THEN <<>>
    ELSE FragmentText(Head(stream), key) \o ConcatFragments(Tail(stream), key)

Streamed(h) == h.route = LegacyChatRoute /\ h.calls # <<>> /\ h.calls[1].result.t = "200"

C4_StreamReassembly ==
    Streamed(run)
    => LET stream == run.calls[1].result.stream
           consumed == SubSeq(stream, 1, Len(stream) - Len(run.lines))
       IN  /\ run.pc \in {"lines", "done"}
           /\ run.pc = "lines" => run.final_message = ConcatFragments(consumed, run.model_key)
           /\ run.pc = "done" =>
                 /\ run.rsp.status = 200
                 /\ run.rsp.body.response = ConcatFragments(stream, run.model_key)

C4_Witness ==
    /\ Streamed(run) /\ run.pc = "done" /\ run.rsp.status = 200
    /\ run.model_key = "tinyllama"
    /\ run.calls[1].result.stream =
          <<[t |-> "json", j |-> ChatShape(JStr(<<"b">>))], [t |-> "garbage"],
            [t |-> "json", j |-> ChatShape(JStr(<<"a">>))]>>
    /\ run.rsp.body.response = <<"b", "a">>

---------------------------------------------------------------------------
(* C5: the successful POST /ask request: probe passed, generation call    *)
(* answered with a text.                                                   *)
Generated(h) ==
    /\ h.route = AskRoute /\ Len(h.calls) = 2 /\ h.calls[2].result.t = "200"
    /\ h.calls[2].result.json.t = "obj"
    /\ "response" \in DOMAIN h.calls[2].result.json.f
    /\ h.calls[2].result.json.f["response"].t = "str"

GeneratedText(h) == h.calls[2].result.json.f["response"].v

\* r is text without the blanks around it
IsTrimOf(r, text) ==
    /\ r # <<>> /\ r[1] # " " /\ r[Len(r)] # " "
    /\ \E i \in 0..Len(text) :
          /\ i + Len(r) <= Len(text)
          /\ SubSeq(text, i + 1, i + Len(r)) = r
          /\ \A k \in 1..Len(text) : (k <= i \/ k > i + Len(r)) => text[k] = " "

(* C5 as stated: whenever the reply's text is non-empty, the response is   *)
(* 200 with response = that text without its surrounding whitespace, model *)
(* = the request's logical key, ollama_model = the real id configured for  *)
(* it, and the generation call carried that real id and the caller's       *)
(* prompt unchanged.                                                       *)
C5_NonEmptyTextSucceeds ==
    (Generated(run) /\ GeneratedText(run) # <<>>)
    => /\ run.pc = "done"
       /\ run.rsp.status = 200
       /\ IsTrimOf(run.rsp.body.response, GeneratedText(run))
       /\ JStr(<<run.rsp.body.model>>) = AskKey(run)
       /\ run.rsp.body.ollama_model = Lookup(AVAILABLE_MODELS_boot, AskKey(run).v[1])
       /\ run.calls[2].payload.model = Lookup(AVAILABLE_MODELS_boot, AskKey(run).v[1])
       /\ run.calls[2].payload.prompt = run.data.f["prompt"]
       /\ run.calls[1].result.t = "200"

(* C5 amended: the same, whenever the reply's text is not only whitespace. *)
C5_NormalizedSuccess ==
    (Generated(run) /\ ~Blank(GeneratedText(run)))
    => /\ run.pc = "done"
       /\ run.rsp.status = 200
       /\ IsTrimOf(run.rsp.body.response, GeneratedText(run))
       /\ JStr(<<run.rsp.body.model>>) = AskKey(run)
       /\ run.rsp.body.ollama_model = Lookup(AVAILABLE_MODELS_boot, AskKey(run).v[1])
       /\ run.calls[2].payload.model = Lookup(AVAILABLE_MODELS_boot, AskKey(run).v[1])
       /\ run.calls[2].payload.prompt = run.data.f["prompt"]
       /\ run.calls[1].result.t = "200"

C5_Witness ==
    /\ Generated(run) /\ GeneratedText(run) = <<" ", "a", " ">>
    /\ run.rsp.status = 200 /\ run.rsp.body.response = <<"a">>
    /\ run.rsp.body.model = "smollm2"
    /\ run.rsp.body.ollama_model = "smollm2:135m-instruct-q8_0"
    /\ run.calls[2].payload.prompt = JStr(<<" ">>)

---------------------------------------------------------------------------
(* C6: a non-streaming reply (POST /ask) whose generated-text field is     *)
(* absent, empty or blank is answered 500 "Empty response from model"; no  *)
(* 200 of POST /ask carries an empty response text.                        *)
EmptyReply(h) ==
    /\ h.route = AskRoute /\ Len(h.calls) = 2 /\ h.calls[2].result.t = "200"
    /\ h.calls[2].result.json.t = "obj"
    /\ \/ "response" \notin DOMAIN h.calls[2].result.json.f
       \/ /\ h.calls[2].result.json.f["response"].t = "str"
          /\ Blank(h.calls[2].result.json.f["response"].v)

C6_EmptyGeneration ==
    /\ EmptyReply(run)
       => /\ run.pc = "done"
          /\ run.rsp.status = 500
          /\ run.rsp.body.error = <<"Empty response from model">>
    /\ (run.route = AskRoute /\ run.pc = "done" /\ run.rsp.status = 200)
       => ~Blank(run.rsp.body.response)

C6_Witness ==
    /\ EmptyReply(run) /\ run.rsp.status = 500
    /\ "response" \in DOMAIN run.calls[2].result.json.f
    /\ run.calls[2].result.json.f["response"].v = <<" ", " ">>

---------------------------------------------------------------------------
(* C7: GET /health with exactly one of the two backends unreachable.       *)

\* the answer to the handler's first call to the i-th service (its probe)
ProbeOf(h, i) ==
    h.calls[CHOOSE n \in 1..Len(h.calls) :
              /\ h.calls[n].url = OLLAMA_SERVICES_boot[i][2]
              /\ \A m \in 1..(n - 1) : h.calls[m].url # OLLAMA_SERVICES_boot[i][2]].result

Down(h) == {i \in 1..Len(OLLAMA_SERVICES_boot) : ProbeOf(h, i).t # "200"}

OneDown(h) == h.route = HealthRoute /\ h.pc = "done" /\ Cardinality(Down(h)) = 1

Entries(h) ==
    /\ Len(h.rsp.body.services) = Len(OLLAMA_SERVICES_boot)
    /\ \A i \in 1..Len(OLLAMA_SERVICES_boot) :
          /\ h.rsp.body.services[i][1] = OLLAMA_SERVICES_boot[i][1]
          /\ IF i \in Down(h)
             THEN /\ h.rsp.body.services[i][2].connected = FALSE
                  /\ h.rsp.body.services[i][2].models = <<>>
             ELSE h.rsp.body.services[i][2].connected = TRUE

---------------------------------------------------------------------------
(* C8: GET /models answers 200 with the full configured key set and makes  *)
(* no upstream call; the registry keeps its boot value through every       *)
(* sequence of requests.                                                   *)
C8_ModelsListing ==
    /\ (run.route \in ModelsRoutes /\ Finished(run))
       => /\ run.pc = "done"
          /\ run.rsp.status = 200
          /\ Range(run.rsp.body.models) = ConfiguredKeys
          /\ run.calls = <<>>
    /\ AVAILABLE_MODELS = AVAILABLE_MODELS_boot
    /\ OLLAMA_SERVICES = OLLAMA_SERVICES_boot
    /\ LEGACY_AVAILABLE_MODELS = LEGACY_AVAILABLE_MODELS_boot
    /\ MODEL_ENDPOINTS = MODEL_ENDPOINTS_boot

C8_Witness ==
    /\ run.route = <<"app", "GET /models">> /\ run.pc = "done"
    /\ run.rsp.body.models = <<"smollm2", "tinyllama">>

---------------------------------------------------------------------------
(* C9: every failure of the upstream generation call ends in an error      *)
(* response of the handler: 504 for a timeout, 500 for any other transport *)
(* or HTTP-status failure.                                                 *)
GenerationFailed(h) ==
    /\ h.route \in ChatRoutes /\ h.calls # <<>>
    /\ h.calls[Len(h.calls)].method = "POST"
    /\ h.calls[Len(h.calls)].result.t \in UpstreamFailures

C9_UpstreamFailuresMapped ==
    GenerationFailed(run)
    => /\ run.pc = "done"
       /\ run.rsp.status = IF run.calls[Len(run.calls)].result.t = "Timeout" THEN 504 ELSE 500

---------------------------------------------------------------------------
(* C10: two chat/generate requests that differ only in their token, served *)
(* with the same backend answers, make the same upstream calls and get the *)
(* same status and body; validate_token is never invoked.                  *)
C10_TokenIgnored ==
    /\ run.jwt_decodes = 0
    /\ twin.jwt_decodes = 0
    /\ (run.route \in ChatRoutes /\ Finished(run))
       => /\ twin.data = WithToken(run.data, TokenOf(twin.data))
          /\ twin.pc = run.pc
          /\ twin.rsp = run.rsp
          /\ twin.calls = run.calls

C10_Witness ==
    /\ run.route \in ChatRoutes /\ run.pc = "done" /\ run.rsp.status = 200
    /\ TokenOf(run.data) = JStr(<<"jwt-forged">>)
    /\ TokenOf(twin.data) = JStr(<<"jwt-signed">>)
    /\ twin.rsp = run.rsp

---------------------------------------------------------------------------
(* C11: no retries.                                                        *)

\* the backend selected for the request's model key
SelectedUrl(h) ==
    IF h.route = AskRoute THEN Lookup(OLLAMA_SERVICES_boot, AskKey(h).v[1])
    ELSE Lookup(MODEL_ENDPOINTS_boot, h.data.f["model"].v[1])

IsProbe(c) == c.method = "GET"
IsGeneration(c) == c.method = "POST"
CallFailed(c) == c.result.t \in UpstreamFailures \/ (IsProbe(c) /\ c.result.t # "200")
CountCalls(h, P(_)) == Cardinality({i \in 1..Len(h.calls) : P(h.calls[i])})

\* at most one probe and one generation call, all to the selected backend,
\* and a failed call is the last one, answered with an error
SingleAttempt(h) ==
    /\ CountCalls(h, IsProbe) <= 1
    /\ CountCalls(h, IsGeneration) <= 1
    /\ \A i \in 1..Len(h.calls) :
          /\ h.calls[i].url = SelectedUrl(h)
          /\ CallFailed(h.calls[i]) =>
                /\ i = Len(h.calls)
                /\ h.pc = "done"
                /\ h.rsp.status >= 400
                /\ "error" \in DOMAIN h.rsp.body

\* every generation call directly follows a probe that succeeded
ProbedFirst(h) ==
    \A i \in 1..Len(h.calls) :
        IsGeneration(h.calls[i]) =>
            /\ i > 1
            /\ IsProbe(h.calls[i - 1])
            /\ h.calls[i - 1].result.t = "200"

(* C11 as stated: every chat/generate request makes at most one probe and  *)
(* then at most one generation call, both to the backend selected for its  *)
(* model key; the generation call is sent only after the probe succeeded;  *)
(* after the first upstream failure no further upstream call is made       *)
(* before the error response.                                              *)
C11_NoRetries ==
    (run.route \in ChatRoutes /\ run.calls # <<>>)
    => /\ SingleAttempt(run)
       /\ ProbedFirst(run)

(* C11, the part that holds of both handlers: the single attempt; and the  *)
(* probe before the generation call on POST /ask.                          *)
C11_SingleAttempt ==
    (run.route \in ChatRoutes /\ run.calls # <<>>)
    => /\ SingleAttempt(run)
       /\ run.route = AskRoute => ProbedFirst(run)

---------------------------------------------------------------------------
(* C12: every POST to a chat/generate endpoint, whatever its body and the  *)
(* backend's behaviour, ends with a response of the handler itself, with   *)
(* status 200, 400, 500, 503 or 504 and a body that is the normalized      *)
(* success object or an object with an `error` message; no exception       *)
(* leaves the handler.                                                     *)
HandlerStatuses == {200, 400, 500, 503, 504}
NormalizedSuccess == {"response", "model", "ollama_model", "processing_time"}

C12_HandlerAlwaysResponds ==
    (run.route \in ChatRoutes /\ Finished(run))
    => /\ run.pc = "done"
       /\ run.rsp.status \in HandlerStatuses
       /\ IF run.rsp.status = 200 THEN DOMAIN run.rsp.body = NormalizedSuccess
          ELSE "error" \in DOMAIN run.rsp.body

\* the requests whose handling raises outside every try block
Escaping(h) ==
    \/ ~ObjBody(h)
    \/ /\ h.route = AskRoute
       /\ HasField(h, "prompt") /\ Truthy(h.data.f["prompt"])
       /\ \/ h.data.f["prompt"].t = "num"
          \/ HasField(h, "model") /\ h.data.f["model"].t = "list"

(* C12, what holds: the exception leaves the handler exactly for a body    *)
(* that is no JSON object and, on POST /ask, for a numeric prompt or an    *)
(* unhashable model beside a non-empty prompt; every other request is      *)
(* answered by the handler with one of the five statuses and an `error`    *)
(* or a `response`; a request in progress always has a next step.          *)
C12_EscapesExactly ==
    /\ (run.route \in ChatRoutes /\ Finished(run))
       => /\ run.pc = "fault" <=> Escaping(run)
          /\ run.pc = "fault" => run.rsp = NoResponse
          /\ run.pc = "done" =>
                /\ run.rsp.status \in HandlerStatuses
                /\ IF run.rsp.status = 200 THEN "response" \in DOMAIN run.rsp.body
                   ELSE "error" \in DOMAIN run.rsp.body
    /\ (run.route \in ChatRoutes /\ ~Finished(run)) => ENABLED Next

====
